---- MODULE Spec2Model ----
(***************************************************************************)
(* Model of scripts/version_bumper.py: the dependency file updater.        *)
(* Text is a sequence of one-character strings.  An optional value         *)
(* (Optional[str]) is a sequence of length 0 (None) or 1 (the string).     *)
(***************************************************************************)
EXTENDS Integers, Sequences, FiniteSets, TLC

VARIABLES disk, section, pc, deps, lines, k, lookups, writes, run, hist

vars == <<disk, section, pc, deps, lines, k, lookups, writes, run, hist>>

\* ------------------------------ bounds ---------------------------------
MaxLines == 3
MaxRuns == 2

\* --------------------------- character classes -------------------------
Digits == {"0", "1", "2", "3", "4", "5", "6", "7", "8", "9"}

Letters ==
    {"a", "b", "c", "d", "e", "f", "g", "h", "i", "j", "k", "l", "m",
     "n", "o", "p", "q", "r", "s", "t", "u", "v", "w", "x", "y", "z",
     "A", "B", "C", "D", "E", "F", "G", "H", "I", "J", "K", "L", "M",
     "N", "O", "P", "Q", "R", "S", "T", "U", "V", "W", "X", "Y", "Z"}

\* \s of the two patterns, and the characters str.strip() removes
Whitespace == {" ", "\t", "\n", "\r", "\f"}

\* [\^\~\>\=\<\!] of the two patterns
Comparators == {"^", "~", ">", "=", "<", "!"}

\* [\d\.\-\w] of the two patterns
VersionChars == Digits \cup Letters \cup {"_", ".", "-"}

\* the argument of lstrip("^=!~<>")
LstripChars == {"^", "=", "!", "~", "<", ">"}

\* the argument of strip('[]')
BracketChars == {"[", "]"}

\* the characters str.splitlines ends a line at, among those the input
\* files are made of (it also ends a line at \v, \x1c-\x1e, \x85, \u2028
\* and \u2029, which no input file here holds)
LineBoundaries == {"\n", "\r", "\f"}

\* ------------------------------ str helpers ----------------------------
Max(S) == CHOOSE x \in S : \A y \in S : y <= x

\* s.startswith(prefix)
startswith(s, prefix) ==
    /\ Len(prefix) <= Len(s)
    /\ SubSeq(s, 1, Len(prefix)) = prefix

\* s.lstrip(chars)
lstrip(s, chars) ==
    LET first == CHOOSE i \in 1..(Len(s) + 1) :
                     /\ \A j \in 1..(i - 1) : s[j] \in chars
                     /\ i = Len(s) + 1 \/ s[i] \notin chars
    IN  SubSeq(s, first, Len(s))

\* s.rstrip(chars)
rstrip(s, chars) ==
    LET last == CHOOSE i \in 0..Len(s) :
                    /\ \A j \in (i + 1)..Len(s) : s[j] \in chars
                    /\ i = 0 \/ s[i] \notin chars
    IN  SubSeq(s, 1, last)

\* s.strip(chars); s.strip() is strip(s, Whitespace)
strip(s, chars) == rstrip(lstrip(s, chars), chars)

RECURSIVE replace_nonempty(_, _, _)
replace_nonempty(s, old, new) ==
    IF Len(s) < Len(old) THEN s
    ELSE IF SubSeq(s, 1, Len(old)) = old
         THEN new \o replace_nonempty(SubSeq(s, Len(old) + 1, Len(s)), old, new)
         ELSE <<s[1]>> \o replace_nonempty(Tail(s), old, new)

RECURSIVE replace_empty(_, _)
replace_empty(s, new) ==
    IF s = <<>> THEN new
    ELSE new \o <<s[1]>> \o replace_empty(Tail(s), new)

\* the same with count = 1: only the first occurrence
RECURSIVE replace_first(_, _, _)
replace_first(s, old, new) ==
    IF Len(s) < Len(old) THEN s
    ELSE IF SubSeq(s, 1, Len(old)) = old
         THEN new \o SubSeq(s, Len(old) + 1, Len(s))
         ELSE <<s[1]>> \o replace_first(Tail(s), old, new)

\* s.replace(old, new): every non-overlapping occurrence, left to right
replace(s, old, new) ==
    IF old = <<>> THEN replace_empty(s, new)
    ELSE replace_nonempty(s, old, new)

\* "\n".join(ls)
RECURSIVE join(_)
join(ls) ==
    IF ls = <<>> THEN <<>>
    ELSE IF Len(ls) = 1 THEN ls[1]
    ELSE ls[1] \o <<"\n">> \o join(Tail(ls))

\* Path.read_text(): text mode with universal newlines, "\r\n" and "\r"
\* are read as "\n"
RECURSIVE read_text(_)
read_text(bytes) ==
    IF bytes = <<>> THEN <<>>
    ELSE IF bytes[1] = "\r"
         THEN IF Len(bytes) >= 2 /\ bytes[2] = "\n"
              THEN <<"\n">> \o read_text(SubSeq(bytes, 3, Len(bytes)))
              ELSE <<"\n">> \o read_text(Tail(bytes))
         ELSE <<bytes[1]>> \o read_text(Tail(bytes))

\* str.splitlines(keepends=False): a line ends at every boundary, "\r\n"
\* counts as one, and no empty line follows a final boundary
RECURSIVE splitlines(_)
splitlines(text) ==
    IF text = <<>> THEN <<>>
    ELSE LET brk == {i \in 1..Len(text) : text[i] \in LineBoundaries}
         IN  IF brk = {} THEN <<text>>
             ELSE LET b == CHOOSE i \in brk : \A j \in brk : i <= j
                      e == IF /\ text[b] = "\r"
                              /\ b < Len(text)
                              /\ text[b + 1] = "\n"
                           THEN b + 1 ELSE b
                  IN  <<SubSeq(text, 1, b - 1)>>
                          \o splitlines(SubSeq(text, e + 1, Len(text)))

\* ------------------------------- constants ------------------------------
\* f"[{section}]"
SectionHeader(sec) == <<"[">> \o sec \o <<"]">>

\* 'python ='
PythonPrefix == <<"p", "y", "t", "h", "o", "n", " ", "=">>

\* '{%'
TemplatePrefix == <<"{", "%">>

\* the literal "version" of EXPANDED_VER_RE
VersionKey == <<"v", "e", "r", "s", "i", "o", "n">>

\* "This is not defined"
NotDefined ==
    <<"T", "h", "i", "s", " ", "i", "s", " ", "n", "o", "t", " ",
      "d", "e", "f", "i", "n", "e", "d">>

\* None, and the Optional[str] holding s
None == <<>>
Some(s) == <<s>>

\* ---------------------------- get_dependencies --------------------------
\* The loop of get_dependencies over ls from line i on; indices are
\* 1-based here (enumerate's index + 1).
RECURSIVE scan(_, _, _, _, _)
scan(ls, i, recording, sec, acc) ==
    IF i > Len(ls) THEN acc
    ELSE LET line == ls[i]
         IN  IF startswith(line, <<"[">>) /\ strip(line, BracketChars) # sec
                 THEN scan(ls, i + 1, FALSE, sec, acc)
             ELSE IF line = SectionHeader(sec)
                 THEN scan(ls, i + 1, TRUE, sec, acc)
             ELSE IF startswith(line, PythonPrefix)
                 THEN scan(ls, i + 1, recording, sec, acc)
             ELSE IF startswith(line, TemplatePrefix)
                 THEN scan(ls, i + 1, recording, sec, acc)
             ELSE IF recording
                 THEN scan(ls, i + 1, recording, sec, Append(acc, <<i, line>>))
             ELSE scan(ls, i + 1, recording, sec, acc)

\* the same loop without the 'python =' test
RECURSIVE scan_no_python_skip(_, _, _, _, _)
scan_no_python_skip(ls, i, recording, sec, acc) ==
    IF i > Len(ls) THEN acc
    ELSE LET line == ls[i]
         IN  IF startswith(line, <<"[">>) /\ strip(line, BracketChars) # sec
                 THEN scan_no_python_skip(ls, i + 1, FALSE, sec, acc)
             ELSE IF line = SectionHeader(sec)
                 THEN scan_no_python_skip(ls, i + 1, TRUE, sec, acc)
             ELSE IF startswith(line, TemplatePrefix)
                 THEN scan_no_python_skip(ls, i + 1, recording, sec, acc)
             ELSE IF recording
                 THEN scan_no_python_skip(ls, i + 1, recording, sec,
                                          Append(acc, <<i, line>>))
             ELSE scan_no_python_skip(ls, i + 1, recording, sec, acc)

get_dependencies_no_python_skip(bytes, sec) ==
    scan_no_python_skip(splitlines(read_text(bytes)), 1, FALSE, sec, <<>>)

get_dependencies(bytes, sec) ==
    scan(splitlines(read_text(bytes)), 1, FALSE, sec, <<>>)

\* ------------------------------ the patterns ----------------------------
\* The end of the longest run of characters of class from position p on:
\* the position after a greedy class*.  Neither pattern can match after
\* giving back a character of such a run, since what follows each run is a
\* literal outside the class.
SpanEnd(s, p, class) ==
    CHOOSE q \in p..(Len(s) + 1) :
        /\ \A i \in p..(q - 1) : s[i] \in class
        /\ q = Len(s) + 1 \/ s[q] \notin class

LitAt(s, p, c) == p <= Len(s) /\ s[p] = c

\* The span of a version group when no version group matches
NoMatch == <<0, 0>>

\* " at position b: the position after it, 0 when no match
QuoteAt(s, b) == IF LitAt(s, b, "\"") THEN b + 1 ELSE 0

\* =\s*" at position a: the position after the quote, 0 when no match
EqualsAt(s, a) ==
    IF LitAt(s, a, "=") THEN QuoteAt(s, SpanEnd(s, a + 1, Whitespace)) ELSE 0

\* \s*=\s*" at position p: the position after the quote, 0 when no match
AssignQuote(s, p) == EqualsAt(s, SpanEnd(s, p, Whitespace))

\* the " that closes a version group whose characters are s[v..e-1]
ClosingQuoteAt(s, v, e) == IF e > v /\ LitAt(s, e, "\"") THEN e ELSE 0

\* [\d\.\-\w]+" at position v: the position of the quote, 0 when no match
VersionCharsAt(s, v) == ClosingQuoteAt(s, v, SpanEnd(s, v, VersionChars))

\* [\^\~\>\=\<\!]?[\d\.\-\w]+" at position p: the position of the quote,
\* 0 when no match
VersionGroupEnd(s, p) ==
    VersionCharsAt(s, IF p <= Len(s) /\ s[p] \in Comparators
                      THEN p + 1 ELSE p)

\* <<start, end>> of the version group that starts at v and is closed by
\* the quote at e
GroupSpan(v, e) == IF e = 0 THEN NoMatch ELSE <<v, e - 1>>

\* (?P<version>...)" at position v, v = 0 when what precedes did not match
VersionGroupAt(s, v) ==
    IF v = 0 THEN NoMatch ELSE GroupSpan(v, VersionGroupEnd(s, v))

\* \s*=\s*"(?P<version>...)" at position p: <<start, end>> of the version
\* group
RawRest(s, p) == VersionGroupAt(s, AssignQuote(s, p))

\* The groups of a match whose package group is s[1..n] and whose version
\* group spans g
Groups(s, n, g) ==
    Some([package |-> SubSeq(s, 1, n), version |-> SubSeq(s, g[1], g[2])])

RawGroups(s, n) == Groups(s, n, RawRest(s, n + 1))

\* ends: the lengths of the prefixes after which the rest of RAW_VERSION_RE
\* matches; the greedy (?P<package>.*) takes the longest
RawLongest(s, ends) == IF ends = {} THEN None ELSE RawGroups(s, Max(ends))

\* RAW_VERSION_RE.match(s)
RAW_VERSION_RE(s) ==
    RawLongest(s, {n \in 0..Len(s) : RawRest(s, n + 1) # NoMatch})

\* (.*)\} after the version group spanning g
ClosingBrace(s, g) ==
    IF g # NoMatch /\ \E c \in (g[2] + 2)..Len(s) : s[c] = "}"
    THEN g ELSE NoMatch

\* version\s*=\s*"(?P<version>...)"(.*)\} at position j: <<start, end>> of
\* the version group
ExpVersionAt(s, j) ==
    IF /\ j + Len(VersionKey) - 1 <= Len(s)
       /\ SubSeq(s, j, j + Len(VersionKey) - 1) = VersionKey
    THEN ClosingBrace(s, RawRest(s, j + Len(VersionKey)))
    ELSE NoMatch

\* js: the positions after the brace at which version...\} matches; the
\* greedy (.*) after the brace takes the longest text, the last of them
LastVersion(s, js) == IF js = {} THEN NoMatch ELSE ExpVersionAt(s, Max(js))

\* \{(.*)version...\} at position b
BraceAt(s, b) ==
    IF LitAt(s, b, "{")
    THEN LastVersion(s, {j \in (b + 1)..Len(s) : ExpVersionAt(s, j) # NoMatch})
    ELSE NoMatch

\* =\s*\{(.*)version...\} at position a
ExpEqualsAt(s, a) ==
    IF LitAt(s, a, "=") THEN BraceAt(s, SpanEnd(s, a + 1, Whitespace))
    ELSE NoMatch

\* \s*=\s*\{(.*)version...\} at position p: <<start, end>> of the version
\* group
ExpRest(s, p) == ExpEqualsAt(s, SpanEnd(s, p, Whitespace))

ExpGroups(s, n) == Groups(s, n, ExpRest(s, n + 1))

\* ends: the lengths of the prefixes after which the rest of
\* EXPANDED_VER_RE matches; the greedy (?P<package>.*) takes the longest
ExpLongest(s, ends) == IF ends = {} THEN None ELSE ExpGroups(s, Max(ends))

\* EXPANDED_VER_RE.match(s)
EXPANDED_VER_RE(s) ==
    ExpLongest(s, {n \in 0..Len(s) : ExpRest(s, n + 1) # NoMatch})

\* --------------------------- the package index ---------------------------
\* The version strings the index answers with
Versions == {<<"1">>, <<"1", ".", "2">>}

\* What requests.get returns: resp.ok, and info.version of resp.json()
Responses ==
    {[ok |-> FALSE, version |-> <<>>]}
        \cup {[ok |-> TRUE, version |-> v] : v \in Versions}

\* get_new_version with a failed response taken for a successful one
get_new_version_ignoring_status(resp) == Some(resp.version)

\* get_new_version(package_name), resp being the answer to its GET
get_new_version(resp) ==
    IF ~resp.ok THEN None ELSE Some(resp.version)

\* ------------------------------ bump_version ----------------------------
\* exp_match, or else raw_match, of bump_version; None when neither matches
Match(dependency) ==
    LET exp_match == EXPANDED_VER_RE(dependency)
    IN  IF exp_match # None THEN exp_match ELSE RAW_VERSION_RE(dependency)

\* group("version")
version_group(dependency) == Match(dependency)[1].version

\* the version compared and replaced with its comparator left on
version_of_unstripped(dependency) == version_group(dependency)

\* group("package").strip()
package_of(dependency) == strip(Match(dependency)[1].package, Whitespace)

\* group("version").lstrip("^=!~<>")
version_of(dependency) == lstrip(version_group(dependency), LstripChars)

\* bump_version(dependency): the str or None it returns
bump_version(dependency, resp) ==
    IF Match(dependency) = None THEN Some(NotDefined)
    ELSE LET version == version_of(dependency)
             new_version == get_new_version(resp)
         IN  IF new_version # None /\ version # new_version[1]
             THEN Some(replace(dependency, version, new_version[1]))
             ELSE None

\* `if new_version:` of main
Truthy(opt) == opt # None /\ opt[1] # <<>>

\* --------------------------------- inputs -------------------------------
\* The lines the input files are made of
LineSet ==
    { <<"[", "s", "]">>,
      <<"[", "t", "]">>,
      <<"[", "[", "s", "]", "]">>,
      <<>>,
      <<"p", "1", "=", "\"", "1", "\"">>,
      <<"p", " ", "=", " ", "\"", "^", "1", "\"">>,
      <<"q", "=", "{", "v", "e", "r", "s", "i", "o", "n", "=",
        "\"", "~", "1", "\"", "}">>,
      <<"p", "y", "t", "h", "o", "n", " ", "=", "\"", "1", "\"">>,
      <<"{", "%", "p", "=", "\"", "1", "\"">>,
      <<"#", "\r">> }

\* The values of --section
Sections == { <<"s">>, <<"[", "s", "]">> }

\* The input files: up to MaxLines lines, with or without a final newline
Files ==
    { join(ls) \o t :
        ls \in UNION {[1..n -> LineSet] : n \in 0..MaxLines},
        t \in {<<>>, <<"\n">>} }

\* ---------------------------------- main --------------------------------
Init ==
    /\ disk \in Files
    /\ section \in Sections
    /\ pc = "start"
    /\ deps = <<>>
    /\ lines = <<>>
    /\ k = 1
    /\ lookups = <<>>
    /\ writes = 0
    /\ run = 1
    /\ hist = <<disk>>

\* deps = get_dependencies(...); lines = args.file.read_text().splitlines()
GetDeps ==
    /\ pc = "start"
    /\ deps' = get_dependencies(disk, section)
    /\ lines' = splitlines(read_text(disk))
    /\ k' = 1
    /\ pc' = "loop"
    /\ UNCHANGED <<disk, section, lookups, writes, run, hist>>

\* One iteration of the loop of main on a line neither pattern matches:
\* bump_version returns before get_new_version is called
LoopNoLookup ==
    /\ pc = "loop"
    /\ k <= Len(deps)
    /\ Match(deps[k][2]) = None
    /\ LET i == deps[k][1]
           new_version == bump_version(deps[k][2],
                                       [ok |-> FALSE, version |-> <<>>])
       IN  lines' = IF Truthy(new_version)
                    THEN [lines EXCEPT ![i] = new_version[1]]
                    ELSE lines
    /\ k' = k + 1
    /\ UNCHANGED <<disk, section, pc, deps, lookups, writes, run, hist>>

\* The same iteration writing the file as soon as the line is bumped
LoopLookup_write_through(resp) ==
    /\ pc = "loop"
    /\ k <= Len(deps)
    /\ Match(deps[k][2]) # None
    /\ LET i == deps[k][1]
           new_version == bump_version(deps[k][2], resp)
       IN  /\ lines' = IF Truthy(new_version)
                       THEN [lines EXCEPT ![i] = new_version[1]]
                       ELSE lines
           /\ lookups' = Append(lookups,
                                [run |-> run, index |-> i,
                                 package |-> package_of(deps[k][2]),
                                 resp |-> resp])
    /\ disk' = join(lines')
    /\ k' = k + 1
    /\ UNCHANGED <<section, pc, deps, writes, run, hist>>

\* One iteration of the loop of main on a line a pattern matches: the
\* index answers resp
LoopLookup(resp) ==
    /\ pc = "loop"
    /\ k <= Len(deps)
    /\ Match(deps[k][2]) # None
    /\ LET i == deps[k][1]
           new_version == bump_version(deps[k][2], resp)
       IN  /\ lines' = IF Truthy(new_version)
                       THEN [lines EXCEPT ![i] = new_version[1]]
                       ELSE lines
           /\ lookups' = Append(lookups,
                                [run |-> run, index |-> i,
                                 package |-> package_of(deps[k][2]),
                                 resp |-> resp])
    /\ k' = k + 1
    /\ UNCHANGED <<disk, section, pc, deps, writes, run, hist>>

\* requests.get raises: the exception ends the run, nothing is written
LookupRaises ==
    /\ pc = "loop"
    /\ k <= Len(deps)
    /\ Match(deps[k][2]) # None
    /\ pc' = "raised"
    /\ UNCHANGED <<disk, section, deps, lines, k, lookups, writes, run, hist>>

\* args.file.write_text("\n".join(lines))
WriteFile ==
    /\ pc = "loop"
    /\ k > Len(deps)
    /\ disk' = join(lines)
    /\ writes' = writes + 1
    /\ pc' = "done"
    /\ UNCHANGED <<section, deps, lines, k, lookups, run, hist>>

\* The tool is run again on the file the run before it wrote
Rerun ==
    /\ pc = "done"
    /\ run < MaxRuns
    /\ run' = run + 1
    /\ hist' = Append(hist, disk)
    /\ pc' = "start"
    /\ deps' = <<>>
    /\ lines' = <<>>
    /\ k' = 1
    /\ writes' = 0
    /\ UNCHANGED <<disk, section, lookups>>

Next ==
    \/ GetDeps
    \/ LoopNoLookup
    \/ \E resp \in Responses : LoopLookup(resp)
    \/ LookupRaises
    \/ WriteFile
    \/ Rerun

Spec == Init /\ [][Next]_vars

\* ======================= properties of a run ============================
\* The lines of the file the current run started from, and of the file on
\* disk, both as the tool reads a file
InLines == splitlines(read_text(hist[run]))
OutLines == splitlines(read_text(disk))

\* The index lookups of the current run, in the order they were issued
RunLookups == SelectSeq(lookups, LAMBDA e : e.run = run)

\* The line indices get_dependencies returned to the current run
DepIndices == {deps[j][1] : j \in DOMAIN deps}

Parseable(line) == Match(line) # None

SkippedPrefix(line) ==
    startswith(line, PythonPrefix) \/ startswith(line, TemplatePrefix)

Contains(s, sub) ==
    \E i \in 1..(Len(s) - Len(sub) + 1) : SubSeq(s, i, i + Len(sub) - 1) = sub

Occurrences(s, old) ==
    {i \in 1..(Len(s) - Len(old) + 1) : SubSeq(s, i, i + Len(old) - 1) = old}

\* s from position from on, every occurrence of the non-empty old found
\* left to right replaced by new
RECURSIVE ReplacedFrom(_, _, _, _)
ReplacedFrom(s, old, new, from) ==
    LET occ == {i \in Occurrences(s, old) : i >= from}
    IN  IF occ = {} THEN SubSeq(s, from, Len(s))
        ELSE LET i == CHOOSE x \in occ : \A y \in occ : x <= y
             IN  SubSeq(s, from, i - 1) \o new
                     \o ReplacedFrom(s, old, new, i + Len(old))

EveryOccurrenceReplaced(s, old, new) == ReplacedFrom(s, old, new, 1)

\* s with the first occurrence of old, if any, replaced by new
FirstOccurrenceReplaced(s, old, new) ==
    LET occ == Occurrences(s, old)
    IN  IF occ = {} THEN s
        ELSE LET i == CHOOSE x \in occ : \A y \in occ : x <= y
             IN  SubSeq(s, 1, i - 1) \o new
                     \o SubSeq(s, i + Len(old), Len(s))

\* A lookup that found a version other than the line's current one
FoundNewVersion(e) ==
    e.resp.ok /\ e.resp.version # version_of(InLines[e.index])

\* The index gave one answer per package name in all the runs so far
StableIndex ==
    \A a \in DOMAIN lookups : \A b \in DOMAIN lookups :
        lookups[a].package = lookups[b].package
            => lookups[a].resp = lookups[b].resp

\* ------------------------------------------------------------------------
\* C1: every collected line that matches neither pattern is, in the file
\* main wrote, identical to the input line at that index.
C1_UnparseableLineKept ==
    pc = "done" =>
        \A j \in DOMAIN deps :
            ~Parseable(deps[j][2]) =>
                /\ deps[j][1] \in DOMAIN OutLines
                /\ OutLines[deps[j][1]] = deps[j][2]

\* ------------------------------------------------------------------------
\* C2 as stated: when the index returns a version other than the current
\* one, the written line is the input line with only the first occurrence
\* of the old version text replaced by the new version.
C2_OnlyFirstOccurrenceReplaced ==
    pc = "done" =>
        \A n \in DOMAIN RunLookups :
            LET e == RunLookups[n]
            IN  FoundNewVersion(e) =>
                    /\ e.index \in DOMAIN OutLines
                    /\ OutLines[e.index] =
                           FirstOccurrenceReplaced(InLines[e.index],
                               version_of(InLines[e.index]), e.resp.version)

\* C2 amended: when the index returns a version other than the current one,
\* the written line is the input line with every occurrence of the old
\* version text, found left to right without overlap, replaced by the new
\* version; every character outside these occurrences is unchanged.
C2_EveryOccurrenceReplaced ==
    pc = "done" =>
        \A n \in DOMAIN RunLookups :
            LET e == RunLookups[n]
            IN  FoundNewVersion(e) =>
                    /\ e.index \in DOMAIN OutLines
                    /\ OutLines[e.index] =
                           EveryOccurrenceReplaced(InLines[e.index],
                               version_of(InLines[e.index]), e.resp.version)

\* A run rewrote a line in which the old version text occurs more than once
C2_Witness ==
    /\ pc = "done"
    /\ \E n \in DOMAIN RunLookups :
           LET e == RunLookups[n]
           IN  /\ FoundNewVersion(e)
               /\ Cardinality(Occurrences(InLines[e.index],
                                  version_of(InLines[e.index]))) > 1
               /\ OutLines[e.index] # InLines[e.index]

\* ------------------------------------------------------------------------
\* C3: the file main wrote has as many lines as the input, every line whose
\* index get_dependencies did not return is identical to the input line,
\* and only lines at returned indices differ.
C3_FramePreserved ==
    pc = "done" =>
        /\ Len(OutLines) = Len(InLines)
        /\ \A i \in DOMAIN InLines :
               i \notin DepIndices =>
                   i \in DOMAIN OutLines /\ OutLines[i] = InLines[i]
        /\ {i \in DOMAIN InLines \cap DOMAIN OutLines :
               OutLines[i] # InLines[i]} \subseteq DepIndices

\* ------------------------------------------------------------------------
\* C4: when no line of the input equals the target section header, the
\* content main writes equals the input content, final newline included.
C4_NoSectionByteIdentical ==
    (/\ pc = "done"
     /\ \A i \in DOMAIN InLines : InLines[i] # SectionHeader(section))
        => disk = hist[run]

\* ------------------------------------------------------------------------
\* C5: a parseable collected line differs in the written file only if its
\* lookup succeeded with a version other than the line's current version,
\* comparator stripped; after a failed lookup, or one that returned the
\* current version, the written line is identical to the input line.
C5_ChangedOnlyOnNewVersion ==
    pc = "done" =>
        \A j \in DOMAIN deps :
            Parseable(deps[j][2]) =>
                LET i == deps[j][1]
                    cur == version_of(deps[j][2])
                    es == {n \in DOMAIN RunLookups : RunLookups[n].index = i}
                IN  /\ i \in DOMAIN OutLines
                    /\ OutLines[i] # InLines[i] =>
                           \E n \in es : /\ RunLookups[n].resp.ok
                                         /\ RunLookups[n].resp.version # cur
                    /\ \A n \in es :
                           (\/ ~RunLookups[n].resp.ok
                            \/ RunLookups[n].resp.version = cur)
                               => OutLines[i] = InLines[i]

\* A run in which one lookup failed and another, for an inline-table line,
\* returned the line's current version
C5_Witness ==
    /\ pc = "done"
    /\ \E n \in DOMAIN RunLookups : ~RunLookups[n].resp.ok
    /\ \E n \in DOMAIN RunLookups :
           LET e == RunLookups[n]
           IN  /\ EXPANDED_VER_RE(InLines[e.index]) # None
               /\ e.resp.ok
               /\ e.resp.version = version_of(InLines[e.index])

\* ------------------------------------------------------------------------
\* C6: with an index that gives one answer per package name, a second run
\* on the file the first run wrote writes that same file again.
C6_SecondRunChangesNothing ==
    (pc = "done" /\ run = 2 /\ StableIndex) => disk = hist[2]

\* ------------------------------------------------------------------------
\* C7: for a line whose quoted version starts with a comparator, the latest
\* version is compared with the version without the comparator, and a
\* rewrite replaces exactly that text, so the comparator still stands right
\* before the new version in the written line.
C7_ComparatorKept ==
    pc = "done" =>
        \A n \in DOMAIN RunLookups :
            LET e == RunLookups[n]
                line == InLines[e.index]
                group == version_group(line)
                bare == Tail(group)
            IN  group[1] \in Comparators =>
                    /\ e.index \in DOMAIN OutLines
                    /\ (e.resp.ok /\ e.resp.version = bare)
                           => OutLines[e.index] = line
                    /\ (e.resp.ok /\ e.resp.version # bare)
                           => /\ OutLines[e.index] =
                                     EveryOccurrenceReplaced(line, bare,
                                                             e.resp.version)
                              /\ Contains(OutLines[e.index],
                                          <<"\"", group[1]>>
                                              \o e.resp.version \o <<"\"">>)

\* A run that bumped one comparator-prefixed version and found another
\* equal to the latest version
C7_Witness ==
    /\ pc = "done"
    /\ \E n \in DOMAIN RunLookups :
           LET e == RunLookups[n]
               group == version_group(InLines[e.index])
           IN  /\ group[1] \in Comparators
               /\ e.resp.ok
               /\ e.resp.version # Tail(group)
    /\ \E n \in DOMAIN RunLookups :
           LET e == RunLookups[n]
               group == version_group(InLines[e.index])
           IN  /\ group[1] \in Comparators
               /\ e.resp.ok
               /\ e.resp.version = Tail(group)

\* ------------------------------------------------------------------------
\* C8: a line that starts with 'python =' or with '{%' is never in the list
\* get_dependencies returns, no lookup is issued for it, and its text in
\* the written file equals its input text whatever the index answers.
C8_SkippedLinesUntouched ==
    /\ \A j \in DOMAIN deps : ~SkippedPrefix(deps[j][2])
    /\ \A n \in DOMAIN RunLookups : ~SkippedPrefix(InLines[RunLookups[n].index])
    /\ pc = "done" =>
           \A i \in DOMAIN InLines :
               SkippedPrefix(InLines[i]) =>
                   i \in DOMAIN OutLines /\ OutLines[i] = InLines[i]

\* Line i lies inside the target section: a target header precedes it with
\* no other header line in between
InsideSection(i) ==
    \E h \in 1..(i - 1) :
        /\ InLines[h] = SectionHeader(section)
        /\ strip(InLines[h], BracketChars) = section
        /\ \A m \in (h + 1)..i : ~startswith(InLines[m], <<"[">>)

\* A finished run on a file with a skipped line inside the target section
\* that a pattern would match, followed by a line the run bumped
C8_Witness ==
    /\ pc = "done"
    /\ \E i \in DOMAIN InLines :
           /\ SkippedPrefix(InLines[i])
           /\ Parseable(InLines[i])
           /\ InsideSection(i)
           /\ \E n \in DOMAIN RunLookups :
                  /\ RunLookups[n].index > i
                  /\ FoundNewVersion(RunLookups[n])

\* ------------------------------------------------------------------------
\* The list C9 describes: the flag starts false, a line equal to the target
\* header sets it, a line starting with '[' whose bracket-stripped content
\* differs from the section name clears it, and the other lines scanned
\* while it is set are collected unless they start with a skipped prefix.
RECURSIVE Collected(_, _, _, _)
Collected(ls, i, flag, sec) ==
    IF i > Len(ls) THEN <<>>
    ELSE IF ls[i] = SectionHeader(sec)
             THEN Collected(ls, i + 1, TRUE, sec)
         ELSE IF startswith(ls[i], <<"[">>) /\ strip(ls[i], BracketChars) # sec
             THEN Collected(ls, i + 1, FALSE, sec)
         ELSE IF flag /\ ~SkippedPrefix(ls[i])
             THEN <<(<<i, ls[i]>>)>> \o Collected(ls, i + 1, flag, sec)
         ELSE Collected(ls, i + 1, flag, sec)

\* C9: get_dependencies returns, in ascending index order, exactly the
\* lines scanned while the recording flag is true, the flag being set by a
\* line equal to the target header and cleared by any other header line.
C9_CollectsWhileRecording ==
    pc # "start" => deps = Collected(InLines, 1, FALSE, section)

\* ------------------------------------------------------------------------
\* C10: the lookups of a run are issued one by one in ascending line order,
\* one for each parseable collected line; the file is written once, after
\* the last of them, and is unchanged on disk until then.
C10_SequentialThenOneWrite ==
    LET handled == SubSeq(deps, 1, k - 1)
        looked == SelectSeq(handled, LAMBDA d : Parseable(d[2]))
    IN  /\ Len(RunLookups) = Len(looked)
        /\ \A n \in DOMAIN RunLookups : RunLookups[n].index = looked[n][1]
        /\ \A n \in DOMAIN RunLookups : \A m \in DOMAIN RunLookups :
               n < m => RunLookups[n].index < RunLookups[m].index
        /\ writes <= 1
        /\ writes = 1 <=> pc = "done"
        /\ pc = "done" => k = Len(deps) + 1
        /\ pc # "done" => disk = hist[run]

\* A run that issued two lookups and then wrote a changed file
C10_Witness ==
    /\ pc = "done"
    /\ Len(RunLookups) >= 2
    /\ disk # hist[run]

====
